---- MODULE Spec2Model ----
(***************************************************************************)
(* Model of the ImpalaToGo local file-system LRU cache:                    *)
(*   be/src/dfs_cache/managed-file.hpp        (managed_file::File)         *)
(*   be/src/dfs_cache/filesystem-lru-cache.*  (FileSystemLRUCache)         *)
(*   be/src/dfs_cache/sync-module.cc          (Sync)                       *)
(* The LRUCache<> template (lru-cache.hpp), File::open/close/drop and the  *)
(* path codec are not among the source files; they are modelled from the   *)
(* specification (sections 4.1, 4.2, 4.3, 4.4).                            *)
(***************************************************************************)
EXTENDS Integers, Sequences, FiniteSets, TLC

\* ---------------------------------------------------------------- bounds
NumPaths == 2       \* decodable local paths are 1..NumPaths, path 0 does not decode
MaxObj == 3         \* File objects constructed in one run
NumThreads == 2     \* caller threads
MaxSize == 2        \* largest file size on disk
Capacity == 2       \* the capacity the cache is constructed with
MaxUsers == 1       \* reader handles held on one file
MaxTime == 1        \* clock ticks
MaxCalls == 2       \* operations called in one run
MaxRemoveCalls == 3 \* operations called in a run of lookups and removals of one path
MaxAdmitCalls == 3  \* operations called in a run of admissions from disk
MaxRetryCalls == 3  \* operations called in a run of lookups retrying a failed fetch
MaxRetryTime == 2   \* the clock's last value in such a run
RetryInterval == 1  \* m_duration_next_attempt_to_sync, in clock ticks
MaxEstimateCalls == 3 \* operations called in a run that sets estimated sizes
NumTasks == 2       \* prepare requests of the sync module
MaxCompletionCalls == 2 \* continuationFor calls made directly in one run
MaxSignalCalls == 3 \* operations called in a run of state changes and a subscriber
SizeBits == 3       \* width of std::size_t and long long

Paths == 0..NumPaths
Obj == 1..MaxObj
Threads == 1..NumThreads
Tasks == 1..NumTasks
Absent == 0 - 1     \* file_size()/last_write_time() fail: no such file
not_a_date_time == 0 - 1   \* a default-constructed boost::posix_time::ptime

\* ---------------------------------------------------------------- State
FILE_IS_MARKED_FOR_DELETION == "FILE_IS_MARKED_FOR_DELETION"
FILE_IS_IN_USE_BY_SYNC == "FILE_IS_IN_USE_BY_SYNC"
FILE_HAS_CLIENTS == "FILE_HAS_CLIENTS"
FILE_IS_AMORPHOUS == "FILE_IS_AMORPHOUS"
FILE_IS_IDLE == "FILE_IS_IDLE"
FILE_IS_FORBIDDEN == "FILE_IS_FORBIDDEN"
FILE_IS_UNDER_WRITE == "FILE_IS_UNDER_WRITE"

State ==
  { FILE_IS_MARKED_FOR_DELETION, FILE_IS_IN_USE_BY_SYNC, FILE_HAS_CLIENTS,
    FILE_IS_AMORPHOUS, FILE_IS_IDLE, FILE_IS_FORBIDDEN, FILE_IS_UNDER_WRITE }

\* status::StatusInternal values returned by the prepare request
OPERATION_ASYNC_SCHEDULED == "OPERATION_ASYNC_SCHEDULED"
NAMENODE_IS_NOT_CONFIGURED == "NAMENODE_IS_NOT_CONFIGURED"
DFS_NAMENODE_IS_NOT_REACHABLE == "DFS_NAMENODE_IS_NOT_REACHABLE"
SchedulingStatus ==
  { OPERATION_ASYNC_SCHEDULED, NAMENODE_IS_NOT_CONFIGURED, DFS_NAMENODE_IS_NOT_REACHABLE }

\* taskOverallStatus values handed to the completion callback
COMPLETED_OK == "COMPLETED_OK"
FAILURE == "FAILURE"
taskOverallStatus == { COMPLETED_OK, FAILURE }

\* status::StatusInternal values kept in cbStatus
OK == "OK"
REQUEST_FAILED == "REQUEST_FAILED"

VARIABLES
  files,             \* Obj -> the File object's fields (alive = constructed and not deleted)
  nobj,              \* number of File objects constructed so far
  disk,              \* Paths -> size of the file on disk, Absent if none
  m_store,           \* the LRU's entries, least recently used first
  m_currentWeight,   \* the LRU's accounted weight
  nodeWeight,        \* Obj -> the weight accounted for the entry at admission
  m_capacityLimit,   \* the member getCapacity() returns
  m_root,            \* TRUE when the root is a non-empty string
  autoload,          \* constructor flag
  lock,              \* holder of the LRU's admission lock, 0 if free
  now,               \* the clock
  th,                \* Threads -> the caller's position and locals
  prepareCalls,      \* Paths -> prepare requests issued for the path
  calls,             \* operations called so far
  budget,            \* operations the callers make in this run
  mk,                \* the call of File::mark_for_deletion in progress
  sizeLog,           \* Obj -> the estimated_size(n) calls made and the deltas delivered
  cv,                \* m_state_changed_mux (its holder) and the threads asleep on
                     \* m_state_changed_condition
  task,              \* Tasks -> a prepare request of the sync module: its cancel flag,
                     \* mutex and condition, the prepareFile and the cancel call on it
  completion         \* Threads -> completion_mux (its holder) and whether the caller is
                     \* asleep on condition_var, of the thread's continuationFor call

vars ==
  << files, nobj, disk, m_store, m_currentWeight, nodeWeight, m_capacityLimit,
     m_root, autoload, lock, now, th, prepareCalls, calls, budget, mk, sizeLog, cv, task,
     completion >>

lruVars == << m_store, m_currentWeight, nodeWeight, lock >>
cfgVars == << m_capacityLimit, m_root, autoload >>
markVars == << budget, mk, sizeLog, cv, task, completion >>
logVars == << prepareCalls, calls >>

\* ---------------------------------------------------------------- File
\* File::File(const char* path): every member as the constructor leaves it
NewFile(path, decodable) ==
  [ alive |-> TRUE,
    m_fqp |-> path,
    m_state |-> IF decodable THEN FILE_IS_AMORPHOUS ELSE FILE_IS_FORBIDDEN,
    m_users |-> 0,
    m_subscribers |-> 0,
    m_lastsyncattempt |-> not_a_date_time,
    m_prevsize |-> 0,
    m_estimatedsize |-> 0,
    m_weightIsChangedcallback |-> FALSE ]

\* an object not constructed yet
NoFile ==
  [ alive |-> FALSE, m_fqp |-> 0, m_state |-> FILE_IS_AMORPHOUS, m_users |-> 0,
    m_subscribers |-> 0, m_lastsyncattempt |-> not_a_date_time, m_prevsize |-> 0,
    m_estimatedsize |-> 0, m_weightIsChangedcallback |-> FALSE ]

\* delete file: the memory is released; the handles and subscriptions still held
\* on it are the only thing the model keeps of it
Deleted(f) ==
  [ NoFile EXCEPT !.m_fqp = f.m_fqp, !.m_users = f.m_users,
                  !.m_subscribers = f.m_subscribers,
                  !.m_state = FILE_IS_MARKED_FOR_DELETION ]

\* File::restoreNetworkPathFromLocal(...).valid
Decodable(path) == path # 0

\* m_state.load() through a File*: a deleted object's memory has no defined content
LoadState(o) == IF files[o].alive THEN { files[o].m_state } ELSE State

\* a validity check that lets every file through
validAlways(s) == TRUE

\* File::valid()
valid(s) == ~(s = FILE_IS_FORBIDDEN \/ s = FILE_IS_MARKED_FOR_DELETION)

\* File::exists()
exists(s) == s = FILE_HAS_CLIENTS \/ s = FILE_IS_IDLE

\* File::size(): the size on disk, 0 when file_size() reports an error
size(o) == IF disk[files[o].m_fqp] = Absent THEN 0 ELSE disk[files[o].m_fqp]

\* FileSystemLRUCache::isItemIdle
isItemIdle(s) == s # FILE_HAS_CLIENTS

\* FileSystemLRUCache::getWeight
getWeight(o) == IF o = 0 THEN 0 ELSE size(o)

\* FileSystemLRUCache::getCapacity
getCapacity == m_capacityLimit

\* the index key function gkf of the constructor: file->fqp()
\* a key function that tells files apart by object instead of by path
GetKeyByObject(o) == o
GetKey(o) == files[o].m_fqp

\* ---------------------------------------------------------------- helpers
\* the sum of getWeight over a sequence of entries
RECURSIVE WeightOf(_)
WeightOf(s) == IF s = << >> THEN 0 ELSE getWeight(Head(s)) + WeightOf(Tail(s))

Range(s) == { s[i] : i \in 1..Len(s) }

RemoveAt(s, i) == SubSeq(s, 1, i - 1) \o SubSeq(s, i + 1, Len(s))

\* index of the entry whose key is k, 0 if there is none
FindIndex(k) ==
  IF \E i \in 1..Len(m_store) : GetKey(m_store[i]) = k
  THEN CHOOSE i \in 1..Len(m_store) :
         /\ GetKey(m_store[i]) = k
         /\ \A j \in 1..(i - 1) : GetKey(m_store[j]) # k
  ELSE 0

InStore(o) == o \in Range(m_store)

\* a caller thread that is in no operation
\* the one caller of File::mark_for_deletion followed step by step: the file, the
\* position in the function, the local 'marked' and the value returned
NoMark == [ o |-> 0, pc |-> "none", marked |-> FALSE, ret |-> FALSE ]

Idle ==
  [ pc |-> "idle", op |-> "none", path |-> 0, file |-> 0, cand |-> 0,
    victim |-> 0, vi |-> 0, physically |-> FALSE, sobj |-> 0, setval |-> "-",
    ret |-> "-", after |-> "-", dfret |-> "-", dfres |-> FALSE,
    duplicate |-> FALSE, success |-> FALSE, req |-> "none", condition |-> FALSE,
    status |-> "-", cbStatus |-> "-", overall |-> TRUE, canceled |-> FALSE,
    todo |-> << >>, w |-> 0, skipped |-> 0, root |-> TRUE, scheduling |-> "-", resync |-> FALSE, result |-> "-" ]

TypeOK ==
  /\ nobj \in 0..MaxObj
  /\ \A o \in Obj : files[o].m_state \in State
  /\ \A p \in Paths : disk[p] \in {Absent} \cup (0..MaxSize)
  /\ lock \in 0..NumThreads
  /\ now \in 0..MaxRetryTime
  /\ calls \in 0..budget
  /\ budget \in {MaxCalls, MaxRemoveCalls, MaxRetryCalls, MaxAdmitCalls, MaxEstimateCalls, MaxSignalCalls, MaxCompletionCalls}
  /\ mk.o \in 0..MaxObj
  /\ mk.pc \in {"none", "cas_idle", "cas_forbidden", "cas_amorphous", "subscribers",
              "done"}
  /\ \A p \in Paths : prepareCalls[p] \in 0..MaxObj

\* continuationFor's locals completion_mux and condition_var as it declares them
NoWaiter == [ mux |-> "free", asleep |-> FALSE ]

\* a MakeProgressTask nobody has touched: flag down, mutex free, nobody waiting
NewTask ==
  [ condition |-> FALSE, mux |-> "free", asleep |-> FALSE, bytes_read |-> 0,
    prepare |-> "none", status |-> "none", cancel |-> "none", async |-> FALSE ]

\* the mutex is free and nobody waits on the condition
Unlocked == [ mux |-> 0, asleep |-> {} ]

\* no estimated_size(n) call was made on the object
NoCalls == [ args |-> << >>, deltas |-> << >> ]

Constructed(b) ==
  /\ files = [o \in Obj |-> NoFile]
  /\ nobj = 0
  /\ m_store = << >>
  /\ m_currentWeight = 0
  /\ nodeWeight = [o \in Obj |-> 0]
  /\ m_root = TRUE
  /\ lock = 0
  /\ now = 0
  /\ th = [t \in Threads |-> Idle]
  /\ prepareCalls = [p \in Paths |-> 0]
  /\ calls = 0
  /\ budget = b
  /\ mk = NoMark
  /\ sizeLog = [o \in Obj |-> NoCalls]
  /\ cv = Unlocked
  /\ task = [k \in Tasks |-> NewTask]
  /\ completion = [t \in Threads |-> NoWaiter]

\* m_capacityLimit is never initialised: below the configured capacity, or equal to it
Init ==
  /\ Constructed(MaxCalls)
  /\ disk \in { [p \in Paths |-> Absent],
               [p \in Paths |-> IF p = NumPaths THEN Absent ELSE MaxSize] }
  /\ m_capacityLimit \in {0, Capacity}
  /\ autoload \in BOOLEAN

\* ---------------------------------------------------------------- thread steps
At(t, l) == th[t].pc = l
\* the locals are gone when the operation returns; what it returned stays with the caller
Returned(r) == [Idle EXCEPT !.file = r.file, !.result = r.result]
Go(t, r) == th' = [th EXCEPT ![t] = IF r.pc = "idle" THEN Returned(r) ELSE r]

\* the caller starts one more operation
Call ==
  /\ calls < budget
  /\ calls' = calls + 1

\* File::state(State), first half: the load that guards the store
SetLoad(t) ==
  /\ At(t, "set_load")
  /\ \E s \in LoadState(th[t].sobj) :
       Go(t, [th[t] EXCEPT !.pc = IF s = FILE_IS_MARKED_FOR_DELETION
                                  THEN th[t].ret ELSE "set_store"])
  /\ UNCHANGED << files, nobj, disk, lruVars, cfgVars, markVars, now, logVars >>

\* the fields File::state(State) writes after the guard passed
StateStored(f, s) ==
  [f EXCEPT !.m_state = s,
            !.m_lastsyncattempt = IF s = FILE_IS_IN_USE_BY_SYNC THEN now ELSE @]

\* a store through a File*: it changes the object only while the object exists
StoreTo(o, f) == IF files[o].alive THEN [files EXCEPT ![o] = f] ELSE files

\* File::state(State), second half: the time stamp, the store and the broadcast
SetStore(t) ==
  /\ At(t, "set_store")
  /\ files' = StoreTo(th[t].sobj, StateStored(files[th[t].sobj], th[t].setval))
  /\ Go(t, [th[t] EXCEPT !.pc = th[t].ret])
  /\ UNCHANGED << nobj, disk, lruVars, cfgVars, markVars, now, logVars >>

\* a call file->state(s) made at this point, returning to pc r
CallState(rec, o, s, r) ==
  [rec EXCEPT !.pc = "set_load", !.sobj = o, !.setval = s, !.ret = r]

\* ---------------------------------------------------------------- deleteFile
\* FileSystemLRUCache::deleteFile, the idle check
DeleteFileCheck(t) ==
  /\ At(t, "df_check")
  /\ \E s \in LoadState(th[t].victim), physically \in BOOLEAN :
       Go(t, IF ~isItemIdle(s)
             THEN [th[t] EXCEPT !.pc = th[t].dfret, !.dfres = FALSE]
             ELSE CallState([th[t] EXCEPT !.physically = physically],
                            th[t].victim, FILE_IS_MARKED_FOR_DELETION, "df_drop"))
  /\ UNCHANGED << files, nobj, disk, lruVars, cfgVars, markVars, now, logVars >>

\* a deleteFile that drops the file whatever it was asked
DropsAlways(physically) == TRUE

\* deleteFile: if (physically) file->drop()
Drops(physically) == physically

\* FileSystemLRUCache::deleteFile, file->drop() when physically
DeleteFileDrop(t) ==
  /\ At(t, "df_drop")
  /\ disk' = IF Drops(th[t].physically)
             THEN [disk EXCEPT ![files[th[t].victim].m_fqp] = Absent]
             ELSE disk
  /\ Go(t, [th[t] EXCEPT !.pc = "df_delete"])
  /\ UNCHANGED << files, nobj, lruVars, cfgVars, markVars, now, logVars >>

\* FileSystemLRUCache::deleteFile, delete file; return true
DeleteFileDelete(t) ==
  /\ At(t, "df_delete")
  /\ files' = [files EXCEPT ![th[t].victim] = Deleted(@)]
  /\ Go(t, [th[t] EXCEPT !.pc = th[t].dfret, !.dfres = TRUE])
  /\ UNCHANGED << nobj, disk, lruVars, cfgVars, markVars, now, logVars >>

\* ---------------------------------------------------------------- LRU admission
\* LRUCache::add(item, duplicate): take the admission lock, refuse a duplicate key
AdmitBegin(t) ==
  /\ At(t, "adm_begin")
  /\ lock = 0
  /\ LET c == th[t].cand
         i == FindIndex(GetKey(c))
     IN  IF i # 0
         THEN /\ Go(t, [th[t] EXCEPT !.pc = th[t].after, !.duplicate = TRUE,
                                     !.success = TRUE, !.file = m_store[i]])
              /\ UNCHANGED lock
         ELSE /\ Go(t, [th[t] EXCEPT !.pc = "adm_evict", !.duplicate = FALSE,
                                     !.vi = 1, !.w = getWeight(c)])
              /\ lock' = t
  /\ UNCHANGED << files, nobj, disk, m_store, m_currentWeight, nodeWeight, cfgVars, markVars,
                  now, logVars >>

\* LRUCache::add: evict from the front while the candidate does not fit, then insert
AdmitEvict(t) ==
  /\ At(t, "adm_evict")
  /\ IF m_currentWeight + th[t].w <= getCapacity \/ th[t].vi > Len(m_store)
     THEN /\ m_store' = Append(m_store, th[t].cand)
          /\ m_currentWeight' = m_currentWeight + th[t].w
          /\ nodeWeight' = [nodeWeight EXCEPT ![th[t].cand] = th[t].w]
          /\ lock' = 0
          /\ Go(t, [th[t] EXCEPT !.pc = th[t].after, !.success = TRUE,
                                 !.file = th[t].cand, !.vi = 0, !.w = 0,
                                 !.skipped = 0])
     ELSE /\ Go(t, [th[t] EXCEPT !.pc = "df_check", !.victim = m_store[th[t].vi],
                                 !.dfret = "adm_evicted"])
          /\ UNCHANGED lruVars
  /\ UNCHANGED << files, nobj, disk, cfgVars, markVars, now, logVars >>

\* LRUCache::add: the deletion predicate returned; drop the entry or skip it
AdmitEvicted(t) ==
  /\ At(t, "adm_evicted")
  /\ IF th[t].dfres
     THEN /\ m_store' = RemoveAt(m_store, th[t].vi)
          /\ m_currentWeight' = m_currentWeight - nodeWeight[th[t].victim]
          /\ nodeWeight' = [nodeWeight EXCEPT ![th[t].victim] = 0]
          /\ Go(t, [th[t] EXCEPT !.pc = "adm_evict", !.victim = 0])
     ELSE /\ Go(t, [th[t] EXCEPT !.pc = "adm_evict", !.victim = 0, !.vi = @ + 1,
                                 !.skipped = @ + nodeWeight[th[t].victim]])
          /\ UNCHANGED << m_store, m_currentWeight, nodeWeight >>
  /\ UNCHANGED << files, nobj, disk, lock, cfgVars, markVars, now, logVars >>

\* ---------------------------------------------------------------- find
NoReload == \A u \in Threads : th[u].op # "reload" \/ th[u].pc = "idle"

\* a constructor that hands the index its construct function whatever autoload says
ConstructItemFuncAlways(flag) == TRUE

\* the constructor gives the index a construct function (cif) only in autoload
\* configuration
ConstructItemFunc(flag) == flag

\* the index's operator[]: a hit is touched and returned; a miss constructs when the
\* index has a construct function
Lookup(t, rec) ==
  /\ lock = 0
  /\ LET i == FindIndex(rec.path) IN
       IF i # 0
       THEN /\ m_store' = Append(RemoveAt(m_store, i), m_store[i])
            /\ Go(t, [rec EXCEPT !.pc = "find_hit", !.file = m_store[i]])
       ELSE /\ Go(t, [rec EXCEPT !.pc = IF ConstructItemFunc(autoload) THEN "cn_new" ELSE "idle",
                                 !.file = 0, !.result = "nullptr"])
            /\ UNCHANGED m_store
  /\ UNCHANGED << files, nobj, disk, m_currentWeight, nodeWeight, lock, cfgVars, markVars, now,
                  prepareCalls >>

\* FileSystemLRUCache::find(path) is called
Find(t, p) ==
  /\ At(t, "idle")
  /\ NoReload
  /\ Call
  /\ Lookup(t, [Idle EXCEPT !.op = "find", !.path = p])

\* the caller looks the path up again after a subscription was refused
FindAgain(t) ==
  /\ At(t, "find_lookup")
  /\ Lookup(t, th[t])
  /\ UNCHANGED calls

\* FileSystemLRUCache::constructNew: a File born FORBIDDEN is deleted and nullptr returned
ConstructNew(t) ==
  /\ At(t, "cn_new")
  /\ nobj < MaxObj
  /\ nobj' = nobj + 1
  /\ LET f == NewFile(th[t].path, Decodable(th[t].path)) IN
       IF f.m_state = FILE_IS_FORBIDDEN
       THEN /\ files' = [files EXCEPT ![nobj + 1] = Deleted(f)]
            /\ Go(t, [th[t] EXCEPT !.pc = "idle", !.file = 0, !.result = "nullptr"])
       ELSE /\ files' = [files EXCEPT ![nobj + 1] = f]
            /\ Go(t, [th[t] EXCEPT !.pc = "adm_begin", !.cand = nobj + 1,
                                   !.after = "find_admitted"])
  /\ UNCHANGED << disk, lruVars, cfgVars, markVars, now, logVars >>

\* the index after admission: a duplicate candidate is dropped and the entry returned,
\* a new entry is handed to the load function (continuationFor)
FindAdmitted(t) ==
  /\ At(t, "find_admitted")
  /\ IF th[t].duplicate
     THEN /\ files' = [files EXCEPT ![th[t].cand] = Deleted(@)]
          /\ Go(t, [th[t] EXCEPT !.pc = "find_hit", !.cand = 0])
     ELSE /\ Go(t, [th[t] EXCEPT !.pc = "cf_valid", !.cand = 0])
          /\ UNCHANGED files
  /\ UNCHANGED << nobj, disk, lruVars, cfgVars, markVars, now, logVars >>

InProgress(s) == s = FILE_IS_AMORPHOUS \/ s = FILE_IS_IN_USE_BY_SYNC

\* a shouldtryresync that never makes the caller wait
shouldtryresyncAlways(f, t) == TRUE

\* File::shouldtryresync at local time t; nothing is due on a file never stamped
shouldtryresync(f, t) ==
  /\ f.m_lastsyncattempt # not_a_date_time
  /\ (t - f.m_lastsyncattempt) > RetryInterval

\* a thread is inside state(IN_USE_BY_SYNC) on the file, writing m_lastsyncattempt
Stamping(o) ==
  \E u \in Threads :
    At(u, "set_store") /\ th[u].sobj = o /\ th[u].setval = FILE_IS_IN_USE_BY_SYNC

\* what shouldtryresync can answer: m_lastsyncattempt is a plain member, so a read that
\* races with the setter's write, or goes to a deleted File, can answer anything
ShouldTryResync(o) ==
  IF files[o].alive /\ ~Stamping(o)
  THEN { shouldtryresync(files[o], now) }
  ELSE BOOLEAN

\* the caller of find() on a hit: a file still being fetched is subscribed to, a
\* FORBIDDEN one is fetched again when shouldtryresync says so
FindHit(t) ==
  /\ At(t, "find_hit")
  /\ \E s \in LoadState(th[t].file), again \in ShouldTryResync(th[t].file) :
       Go(t, IF InProgress(s)
             THEN [th[t] EXCEPT !.pc = "sub_check"]
             ELSE IF s = FILE_IS_FORBIDDEN /\ again
             THEN [th[t] EXCEPT !.pc = "resync_cas"]
             ELSE [th[t] EXCEPT !.pc = "idle", !.result = s])
  /\ UNCHANGED << files, nobj, disk, lruVars, cfgVars, markVars, now, logVars >>

\* the retry: compare-and-set FORBIDDEN to IN_USE_BY_SYNC, the winner runs the
\* continuation again, a loser looks at the state again
Resync(t) ==
  /\ At(t, "resync_cas")
  /\ \E s \in LoadState(th[t].file) :
       IF s = FILE_IS_FORBIDDEN
       THEN /\ files' = StoreTo(th[t].file, [files[th[t].file] EXCEPT
                                              !.m_state = FILE_IS_IN_USE_BY_SYNC])
            /\ Go(t, [th[t] EXCEPT !.pc = "cf_valid", !.resync = TRUE])
       ELSE /\ Go(t, [th[t] EXCEPT !.pc = "find_hit"])
            /\ UNCHANGED files
  /\ UNCHANGED << nobj, disk, lruVars, cfgVars, markVars, now, logVars >>

\* File::subscribe_for_updates, the load of the state
SubscribeCheck(t) ==
  /\ At(t, "sub_check")
  /\ \E s \in LoadState(th[t].file) :
       Go(t, [th[t] EXCEPT !.pc = IF s = FILE_IS_MARKED_FOR_DELETION
                                  THEN "find_lookup" ELSE "sub_inc"])
  /\ UNCHANGED << files, nobj, disk, lruVars, cfgVars, markVars, now, logVars >>

\* File::subscribe_for_updates, m_subscribers++
SubscribeInc(t) ==
  /\ At(t, "sub_inc")
  /\ files' = [files EXCEPT ![th[t].file].m_subscribers = @ + 1]
  /\ Go(t, [th[t] EXCEPT !.pc = "wait_state"])
  /\ UNCHANGED << nobj, disk, lruVars, cfgVars, markVars, now, logVars >>

\* the subscriber waits on the state-changed condition until the fetch has ended
WaitState(t) ==
  /\ At(t, "wait_state")
  /\ \E s \in LoadState(th[t].file) :
       /\ ~InProgress(s)
       /\ Go(t, [th[t] EXCEPT !.pc = "unsub", !.result = s])
  /\ UNCHANGED << files, nobj, disk, lruVars, cfgVars, markVars, now, logVars >>

\* File::unsubscribe_from_updates
Unsubscribe(t) ==
  /\ At(t, "unsub")
  /\ files' = [files EXCEPT ![th[t].file].m_subscribers = @ - 1]
  /\ Go(t, [th[t] EXCEPT !.pc = "idle"])
  /\ UNCHANGED << nobj, disk, lruVars, cfgVars, markVars, now, logVars >>

\* ---------------------------------------------------------------- continuationFor
\* FileSystemLRUCache::continuationFor: the validity guard, then state(IN_USE_BY_SYNC)
ContinuationValid(t) ==
  /\ At(t, "cf_valid")
  /\ IF th[t].file = 0
     THEN Go(t, [th[t] EXCEPT !.pc = "cf_return"])
     ELSE \E s \in LoadState(th[t].file) :
            Go(t, IF ~valid(s)
                  THEN [th[t] EXCEPT !.pc = "cf_return"]
                  ELSE CallState(th[t], th[t].file, FILE_IS_IN_USE_BY_SYNC, "cf_prepare"))
  /\ UNCHANGED << files, nobj, disk, lruVars, cfgVars, markVars, now, logVars >>

\* where continuationFor goes with the scheduling status of the prepare request
AfterScheduling(status) ==
  IF status # OPERATION_ASYNC_SCHEDULED THEN "cf_return" ELSE "cf_wait"

\* FileSystemLRUCache::continuationFor: the prepare request is issued
ContinuationPrepare(t) ==
  /\ At(t, "cf_prepare")
  /\ \E status \in SchedulingStatus :
       Go(t, [th[t] EXCEPT !.pc = AfterScheduling(status),
                           !.scheduling = status,
                           !.req = IF status = OPERATION_ASYNC_SCHEDULED
                                   THEN "scheduled" ELSE "none"])
  /\ prepareCalls' = [prepareCalls EXCEPT ![th[t].path] = @ + 1]
  /\ UNCHANGED << files, nobj, disk, lruVars, cfgVars, markVars, now, calls >>

\* a callback that takes every task status for success
CallbackStatusAlwaysOk(status) == OK

\* cbStatus as the completion callback computes it
CallbackStatus(status) == IF status = COMPLETED_OK THEN OK ELSE REQUEST_FAILED

\* the completion callback fires: cbStatus, and the load of state(FORBIDDEN) on failure;
\* a download that completed has written the file
CallbackBegin(t) ==
  /\ th[t].req = "scheduled"
  /\ \E overall \in BOOLEAN, canceled \in BOOLEAN, status \in taskOverallStatus,
        s \in LoadState(th[t].file), sz \in {MaxSize} :
       LET stores == status # COMPLETED_OK /\ s # FILE_IS_MARKED_FOR_DELETION IN
       /\ Go(t, [th[t] EXCEPT !.status = status, !.cbStatus = CallbackStatus(status),
                              !.overall = overall, !.canceled = canceled,
                              !.req = IF stores THEN "cb_store" ELSE "cb_done",
                              !.condition = ~stores])
       /\ disk' = IF status = COMPLETED_OK
                  THEN [disk EXCEPT ![th[t].path] = sz]
                  ELSE disk
  /\ UNCHANGED << files, nobj, lruVars, cfgVars, markVars, now, logVars >>

\* the completion callback: the store of state(FORBIDDEN), condition = true, notify_all
CallbackStore(t) ==
  /\ th[t].req = "cb_store"
  /\ files' = StoreTo(th[t].file, StateStored(files[th[t].file], FILE_IS_FORBIDDEN))
  /\ Go(t, [th[t] EXCEPT !.req = "cb_done", !.condition = TRUE])
  /\ UNCHANGED << nobj, disk, lruVars, cfgVars, markVars, now, logVars >>

\* a continuation that sets IDLE whatever cbStatus is
FinalStateAlwaysIdle(cbStatus) == FILE_IS_IDLE

\* the state continuationFor sets once the callback has fired
FinalState(cbStatus) == IF cbStatus # OK THEN FILE_IS_FORBIDDEN ELSE FILE_IS_IDLE

\* FileSystemLRUCache::continuationFor: woken by the callback, set the final state
ContinuationWait(t) ==
  /\ At(t, "cf_wait")
  /\ th[t].condition
  /\ Go(t, CallState([th[t] EXCEPT !.overall = TRUE, !.canceled = FALSE],
                      th[t].file, FinalState(th[t].cbStatus), "cf_return"))
  /\ UNCHANGED << files, nobj, disk, lruVars, cfgVars, markVars, now, logVars >>

\* continuationFor has returned: find() hands the file to its caller
ContinuationReturn(t) ==
  /\ At(t, "cf_return")
  /\ \E s \in LoadState(th[t].file) :
       Go(t, [th[t] EXCEPT !.pc = "idle", !.result = s])
  /\ UNCHANGED << files, nobj, disk, lruVars, cfgVars, markVars, now, logVars >>

\* ---------------------------------------------------------------- add
\* File::estimated_size(std::size_t): the fields after the call (no callback is set)
EstimatedSize(f, n) == [f EXCEPT !.m_prevsize = n, !.m_estimatedsize = n]

\* add: file = new File(path); file->estimated_size(file_size(path)), which throws
\* when there is no such file on disk
AddNew(t, rec) ==
  /\ nobj < MaxObj
  /\ nobj' = nobj + 1
  /\ LET p == rec.path
         f == NewFile(p, Decodable(p))
     IN  IF disk[p] = Absent
         THEN /\ files' = [files EXCEPT ![nobj + 1] = f]
              /\ Go(t, [rec EXCEPT !.pc = "idle", !.file = nobj + 1,
                                   !.result = "exception", !.todo = << >>])
         ELSE /\ files' = [files EXCEPT ![nobj + 1] = EstimatedSize(f, disk[p])]
              /\ Go(t, [rec EXCEPT !.pc = "adm_begin", !.cand = nobj + 1,
                                   !.after = "add_ret"])
  /\ UNCHANGED << disk, lruVars, cfgVars, markVars, now, prepareCalls >>

\* FileSystemLRUCache::add(path, file) is called
Add(t, p) ==
  /\ At(t, "idle")
  /\ NoReload
  /\ Call
  /\ AddNew(t, [Idle EXCEPT !.op = "add", !.path = p])

\* the File* add() leaves in its out-parameter: it is never reassigned after new
AddOutParam(cand, existing) == cand

\* add: if(duplicate) delete file; return success
AddReturn(t) ==
  /\ At(t, "add_ret")
  /\ files' = IF th[t].duplicate
              THEN [files EXCEPT ![th[t].cand] = Deleted(@)]
              ELSE files
  /\ Go(t, [th[t] EXCEPT !.pc = IF th[t].op = "reload" THEN "rl_added" ELSE "idle",
                         !.file = AddOutParam(th[t].cand, th[t].file),
                         !.result = IF th[t].duplicate THEN "duplicate" ELSE "added"])
  /\ UNCHANGED << nobj, disk, lruVars, cfgVars, markVars, now, logVars >>

\* ---------------------------------------------------------------- remove
\* FileSystemLRUCache::remove(path): the index's remove, under the admission lock
Remove(t, p) ==
  /\ At(t, "idle")
  /\ NoReload
  /\ lock = 0
  /\ FindIndex(p) # 0
  /\ Go(t, [Idle EXCEPT !.pc = "df_check", !.op = "remove", !.path = p,
                        !.victim = m_store[FindIndex(p)], !.vi = FindIndex(p),
                        !.dfret = "rm_end"])
  /\ lock' = t
  /\ Call
  /\ UNCHANGED << files, nobj, disk, m_store, m_currentWeight, nodeWeight, cfgVars, markVars,
                  now, prepareCalls >>

\* remove: the entry goes when the deletion predicate disposed of the file
RemoveEnd(t) ==
  /\ At(t, "rm_end")
  /\ IF th[t].dfres
     THEN /\ m_store' = RemoveAt(m_store, th[t].vi)
          /\ m_currentWeight' = m_currentWeight - nodeWeight[th[t].victim]
          /\ nodeWeight' = [nodeWeight EXCEPT ![th[t].victim] = 0]
     ELSE UNCHANGED << m_store, m_currentWeight, nodeWeight >>
  /\ lock' = 0
  /\ Go(t, [th[t] EXCEPT !.pc = "idle"])
  /\ UNCHANGED << files, nobj, disk, cfgVars, markVars, now, logVars >>

\* ---------------------------------------------------------------- reload
\* reload is single-writer: nothing else runs and no handle is held
Quiescent ==
  /\ \A u \in Threads : th[u].pc = "idle"
  /\ \A o \in Obj : files[o].m_users = 0 /\ files[o].m_subscribers = 0

\* the orders in which a set can be listed
Orders(S) ==
  { q \in [1..Cardinality(S) -> S] : \A i, j \in 1..Cardinality(S) : q[i] = q[j] => i = j }

\* a reload that takes every root for a directory
RootNeverEmpty(nonempty) == FALSE

\* reload: root.empty(), for a root given as 'is a non-empty string'
RootEmpty(nonempty) == ~nonempty

\* FileSystemLRUCache::reload(root): an empty root fails; otherwise the root is scanned,
\* the cache reset and the files queued in mtime order
Reload(t, nonempty) ==
  /\ At(t, "idle")
  /\ Quiescent
  /\ IF RootEmpty(nonempty)
     THEN /\ Go(t, [Idle EXCEPT !.op = "reload", !.success = FALSE, !.result = "false"])
          /\ UNCHANGED << files, m_store, m_currentWeight, nodeWeight, m_root >>
     ELSE /\ m_root' = TRUE
          /\ \E q \in Orders({ p \in Paths : disk[p] # Absent }) :
               Go(t, [Idle EXCEPT !.pc = "rl_next", !.op = "reload", !.todo = q,
                                  !.root = nonempty])
          /\ files' = [o \in Obj |-> IF InStore(o) THEN Deleted(files[o]) ELSE files[o]]
          /\ m_store' = << >>
          /\ m_currentWeight' = 0
          /\ nodeWeight' = [o \in Obj |-> 0]
  /\ Call
  /\ UNCHANGED << nobj, disk, m_capacityLimit, autoload, lock, now, prepareCalls,
                  markVars >>

\* reload: the next file of the sorted root; one that does not decode is skipped
ReloadNext(t) ==
  /\ At(t, "rl_next")
  /\ IF th[t].todo = << >>
     THEN /\ Go(t, [th[t] EXCEPT !.pc = "idle", !.success = TRUE, !.result = "true"])
          /\ UNCHANGED << files, nobj, disk, lruVars, cfgVars, markVars, now, logVars >>
     ELSE IF ~Decodable(Head(th[t].todo))
     THEN /\ Go(t, [th[t] EXCEPT !.todo = Tail(@)])
          /\ UNCHANGED << files, nobj, disk, lruVars, cfgVars, markVars, now, logVars >>
     ELSE /\ AddNew(t, [th[t] EXCEPT !.path = Head(th[t].todo), !.todo = Tail(@)])
          /\ UNCHANGED calls

\* reload: file->state(FILE_IS_IDLE) on the File* add() handed back
ReloadAdded(t) ==
  /\ At(t, "rl_added")
  /\ Go(t, CallState(th[t], th[t].file, FILE_IS_IDLE, "rl_next"))
  /\ UNCHANGED << files, nobj, disk, lruVars, cfgVars, markVars, now, logVars >>

\* ---------------------------------------------------------------- File, called by readers
\* File::open(): one more user; the first one moves IDLE to HAS_CLIENTS
Open(o) ==
  /\ NoReload
  /\ files[o].alive
  /\ exists(files[o].m_state)
  /\ files[o].m_users < MaxUsers
  /\ files' = [files EXCEPT ![o].m_users = @ + 1, ![o].m_state = FILE_HAS_CLIENTS]
  /\ UNCHANGED << nobj, disk, lruVars, cfgVars, markVars, now, th, logVars >>

\* File::close(): one user less; the last one moves HAS_CLIENTS to IDLE
Close(o) ==
  /\ NoReload
  /\ files[o].m_users > 0
  /\ files' = [files EXCEPT ![o].m_users = @ - 1,
                            ![o].m_state = IF files[o].m_users = 1
                                              /\ @ = FILE_HAS_CLIENTS
                                           THEN FILE_IS_IDLE ELSE @]
  /\ UNCHANGED << nobj, disk, lruVars, cfgVars, markVars, now, th, logVars >>

\* File::File(const char* path, const WeightChangedEvent& eve)
NewFileWithCallback(path, decodable) ==
  [NewFile(path, decodable) EXCEPT !.m_weightIsChangedcallback = TRUE]

\* a client constructs a File of its own with a weight-change callback
ConstructWithCallback(p) ==
  /\ nobj < MaxObj
  /\ nobj' = nobj + 1
  /\ files' = [files EXCEPT ![nobj + 1] = NewFileWithCallback(p, Decodable(p))]
  /\ UNCHANGED << disk, lruVars, cfgVars, markVars, now, th, logVars >>

\* a std::size_t difference converted to long long
ToSigned(d) == IF d >= 2 ^ (SizeBits - 1) THEN d - 2 ^ SizeBits ELSE d

\* a delta that forgets the previous size
DeltaFromZero(n, prevsize) == ToSigned(n % 2 ^ SizeBits)

\* long long delta = size - m_prevsize
Delta(n, prevsize) == ToSigned((n - prevsize) % 2 ^ SizeBits)

\* File::estimated_size(n): the callback, when there is one, gets the delta; then
\* m_prevsize and m_estimatedsize are set. Nothing of the cache is touched: the only
\* callback a File can have is the one its constructor was given
estimated_size(o, n) ==
  /\ NoReload
  /\ Call
  /\ files[o].alive
  /\ files' = [files EXCEPT ![o] = EstimatedSize(@, n)]
  /\ sizeLog' = [sizeLog EXCEPT ![o] =
                   [ args |-> Append(@.args, n),
                     deltas |-> IF files[o].m_weightIsChangedcallback
                                THEN Append(@.deltas, Delta(n, files[o].m_prevsize))
                                ELSE @.deltas ]]
  /\ UNCHANGED << nobj, disk, lruVars, cfgVars, budget, task, completion, mk, cv, now, th, prepareCalls >>

\* the states File::mark_for_deletion's compare-and-set accepts
Markable(s) == s \in { FILE_IS_IDLE, FILE_IS_FORBIDDEN, FILE_IS_AMORPHOUS }

\* File::mark_for_deletion()
mark_for_deletion(o) ==
  /\ NoReload
  /\ files[o].alive
  /\ Markable(files[o].m_state)
  /\ files' = [files EXCEPT ![o].m_state = FILE_IS_MARKED_FOR_DELETION]
  /\ UNCHANGED << nobj, disk, lruVars, cfgVars, markVars, now, th, logVars >>

\* File::mark_for_deletion() entered: m_state_changed_mux is taken (one call at a time);
\* one call is followed in a run
MarkBegin(o) ==
  /\ mk.pc = "none"
  /\ files[o].alive
  /\ mk' = [NoMark EXCEPT !.o = o, !.pc = "cas_idle"]
  /\ UNCHANGED << files, nobj, disk, lruVars, cfgVars, budget, task, completion, sizeLog, cv, now, th, logVars >>

\* the state each compare_exchange_strong of mark_for_deletion expects
Expected(pc) ==
  CASE pc = "cas_idle" -> FILE_IS_IDLE
    [] pc = "cas_forbidden" -> FILE_IS_FORBIDDEN
    [] pc = "cas_amorphous" -> FILE_IS_AMORPHOUS

\* where mark_for_deletion goes after a compare_exchange_strong that failed
NextCas(pc) ==
  CASE pc = "cas_idle" -> "cas_forbidden"
    [] pc = "cas_forbidden" -> "cas_amorphous"
    [] pc = "cas_amorphous" -> "done"

\* File::mark_for_deletion: one compare_exchange_strong(expected, MARKED_FOR_DELETION)
MarkCas ==
  /\ mk.pc \in {"cas_idle", "cas_forbidden", "cas_amorphous"}
  /\ \E s \in LoadState(mk.o) :
       IF s = Expected(mk.pc)
       THEN /\ files' = StoreTo(mk.o, [files[mk.o] EXCEPT
                                        !.m_state = FILE_IS_MARKED_FOR_DELETION])
            /\ mk' = [mk EXCEPT !.pc = "subscribers", !.marked = TRUE]
       ELSE /\ mk' = [mk EXCEPT !.pc = NextCas(mk.pc)]
            /\ UNCHANGED files
  /\ UNCHANGED << nobj, disk, lruVars, cfgVars, budget, task, completion, sizeLog, cv, now, th, logVars >>

\* a mark_for_deletion that reports the compare-and-set alone
MarkResultIgnoringSubscribers(marked, subscribers) == marked

\* what mark_for_deletion returns after a successful compare-and-set
MarkResult(marked, subscribers) == marked /\ subscribers = 0

\* File::mark_for_deletion: notify_all, m_subscribers.load(), return
MarkReturn ==
  /\ mk.pc = "subscribers"
  /\ \E n \in IF files[mk.o].alive THEN {files[mk.o].m_subscribers} ELSE 0..NumThreads :
       mk' = [mk EXCEPT !.pc = "done", !.ret = MarkResult(mk.marked, n)]
  /\ UNCHANGED << files, nobj, disk, lruVars, cfgVars, budget, task, completion, sizeLog, cv, now, th, logVars >>

\* the clock is read by state(IN_USE_BY_SYNC) only: time passes before such a read
ClockIsRead ==
  \E t \in Threads : At(t, "set_store") /\ th[t].setval = FILE_IS_IN_USE_BY_SYNC

Tick ==
  /\ now < MaxTime
  /\ ClockIsRead
  /\ now' = now + 1
  /\ UNCHANGED << files, nobj, disk, lruVars, cfgVars, markVars, th, logVars >>

\* time passes before shouldtryresync reads the clock, too
TickRetry ==
  /\ now < MaxRetryTime
  /\ ClockIsRead \/ \E t \in Threads : At(t, "find_hit")
  /\ now' = now + 1
  /\ UNCHANGED << files, nobj, disk, lruVars, cfgVars, markVars, th, logVars >>

\* ---------------------------------------------------------------- specification
Step(t) ==
  \/ SetLoad(t) \/ SetStore(t)
  \/ DeleteFileCheck(t) \/ DeleteFileDrop(t) \/ DeleteFileDelete(t)
  \/ AdmitBegin(t) \/ AdmitEvict(t) \/ AdmitEvicted(t)
  \/ FindAgain(t) \/ ConstructNew(t) \/ FindAdmitted(t) \/ FindHit(t)
  \/ SubscribeCheck(t) \/ SubscribeInc(t) \/ WaitState(t) \/ Unsubscribe(t)
  \/ ContinuationValid(t) \/ ContinuationPrepare(t) \/ ContinuationWait(t)
  \/ ContinuationReturn(t)
  \/ CallbackBegin(t) \/ CallbackStore(t)
  \/ AddReturn(t) \/ RemoveEnd(t)
  \/ ReloadNext(t) \/ ReloadAdded(t)

Next ==
  \/ \E t \in Threads : Step(t)
  \/ \E t \in Threads, p \in Paths : Find(t, p) \/ Add(t, p) \/ Remove(t, p)
  \/ \E t \in Threads, nonempty \in BOOLEAN : Reload(t, nonempty)
  \/ \E o \in Obj : Open(o) \/ Close(o) \/ mark_for_deletion(o)
  \/ Tick

Spec == Init /\ [][Next]_vars

\* ---------------------------------------------------------------- cold lookups
\* an autoload cache over an empty root: nothing is on disk before the first fetch
InitLookup ==
  /\ Init
  /\ autoload = TRUE
  /\ disk = [p \in Paths |-> Absent]

\* callers only look paths up; the fetches they start run to their callbacks
NextLookup ==
  \/ \E t \in Threads :
       \/ SetLoad(t) \/ SetStore(t)
       \/ AdmitBegin(t) \/ AdmitEvict(t)
       \/ ConstructNew(t) \/ FindAdmitted(t) \/ FindHit(t)
       \/ SubscribeCheck(t) \/ SubscribeInc(t) \/ WaitState(t) \/ Unsubscribe(t)
       \/ ContinuationValid(t) \/ ContinuationPrepare(t) \/ ContinuationWait(t)
       \/ ContinuationReturn(t)
       \/ CallbackBegin(t) \/ CallbackStore(t)
  \/ \E t \in Threads, p \in Paths : Find(t, p)
  \/ Tick

SpecLookup == InitLookup /\ [][NextLookup]_vars

\* ---------------------------------------------------------------- marking under lookups
\* cold lookups of one path, and one more caller that marks a file for deletion
InitMark ==
  /\ Constructed(MaxCalls)
  /\ autoload = TRUE
  /\ disk = [p \in Paths |-> Absent]
  /\ m_capacityLimit \in {0, Capacity}

NextMark ==
  \/ \E t \in Threads :
       \/ SetLoad(t) \/ SetStore(t)
       \/ AdmitBegin(t) \/ AdmitEvict(t)
       \/ ConstructNew(t) \/ FindAdmitted(t) \/ FindHit(t)
       \/ SubscribeCheck(t) \/ SubscribeInc(t) \/ WaitState(t) \/ Unsubscribe(t)
       \/ ContinuationValid(t) \/ ContinuationPrepare(t) \/ ContinuationWait(t)
       \/ ContinuationReturn(t)
       \/ CallbackBegin(t) \/ CallbackStore(t)
       \/ FindAgain(t)
  \/ \E t \in Threads : Find(t, NumPaths)
  \/ \E o \in Obj : MarkBegin(o)
  \/ MarkCas
  \/ MarkReturn

SpecMark == InitMark /\ [][NextMark]_vars

\* ---------------------------------------------------------------- retried lookups
\* one path is looked up on a cold autoload cache again and again, each lookup after
\* the one before has returned, while time passes
InitRetry ==
  /\ Constructed(MaxRetryCalls)
  /\ autoload = TRUE
  /\ disk = [p \in Paths |-> Absent]
  /\ m_capacityLimit \in {0, Capacity}

ConsecutiveFind(t) ==
  /\ \A u \in Threads : At(u, "idle")
  /\ Find(t, NumPaths)

NextRetry ==
  \/ \E t \in Threads :
       \/ SetLoad(t) \/ SetStore(t)
       \/ AdmitBegin(t) \/ AdmitEvict(t)
       \/ ConstructNew(t) \/ FindAdmitted(t) \/ FindHit(t) \/ Resync(t)
       \/ SubscribeCheck(t) \/ SubscribeInc(t)
       \/ ContinuationValid(t) \/ ContinuationPrepare(t) \/ ContinuationWait(t)
       \/ ContinuationReturn(t)
       \/ CallbackBegin(t) \/ CallbackStore(t)
       \/ ConsecutiveFind(t)
  \/ TickRetry

SpecRetry == InitRetry /\ [][NextRetry]_vars

\* ---------------------------------------------------------------- removal under lookups
\* callers look one path up on a cold autoload cache and remove it again
InitRemove ==
  /\ Constructed(MaxRemoveCalls)
  /\ autoload = TRUE
  /\ disk = [p \in Paths |-> Absent]
  /\ m_capacityLimit \in {0, Capacity}

NextRemove ==
  \/ \E t \in Threads :
       \/ SetLoad(t) \/ SetStore(t)
       \/ DeleteFileCheck(t) \/ DeleteFileDrop(t) \/ DeleteFileDelete(t)
       \/ AdmitBegin(t) \/ AdmitEvict(t)
       \/ FindAgain(t) \/ ConstructNew(t) \/ FindAdmitted(t) \/ FindHit(t)
       \/ SubscribeCheck(t) \/ SubscribeInc(t) \/ WaitState(t) \/ Unsubscribe(t)
       \/ ContinuationValid(t) \/ ContinuationPrepare(t) \/ ContinuationWait(t)
       \/ ContinuationReturn(t)
       \/ CallbackBegin(t) \/ CallbackStore(t)
       \/ RemoveEnd(t)
  \/ \E t \in Threads : Find(t, NumPaths) \/ Remove(t, NumPaths)

SpecRemove == InitRemove /\ [][NextRemove]_vars

\* ---------------------------------------------------------------- admission from disk
\* a cache without autoload over a root that holds a file for every path, each of the
\* largest size; m_capacityLimit is never initialised: below, at or above the capacity
InitAdmit ==
  /\ Constructed(MaxAdmitCalls)
  /\ autoload = FALSE
  /\ disk = [p \in Paths |-> MaxSize]
  /\ m_capacityLimit \in {0, Capacity, Capacity + MaxSize}

NextAdmit ==
  \/ \E t \in Threads :
       \/ SetLoad(t) \/ SetStore(t)
       \/ DeleteFileCheck(t) \/ DeleteFileDrop(t) \/ DeleteFileDelete(t)
       \/ AdmitBegin(t) \/ AdmitEvict(t) \/ AdmitEvicted(t)
       \/ AddReturn(t)
       \/ ReloadNext(t) \/ ReloadAdded(t)
  \/ \E t \in Threads, p \in Paths : Add(t, p)
  \/ \E t \in Threads, nonempty \in BOOLEAN : Reload(t, nonempty)
  \/ \E o \in Obj : Open(o) \/ Close(o)

SpecAdmit == InitAdmit /\ [][NextAdmit]_vars

\* ---------------------------------------------------------------- state-change signal
\* the caller of mark_for_deletion as a holder of the mutex
Marker == NumThreads + 1

\* a notify_all that wakes nobody
NotifyNone(asleep) == asleep

\* m_state_changed_condition.notify_all(): the threads left asleep
NotifyAll(asleep) == {}

\* one File is constructed for the run
ConstructOne == nobj = 0 /\ ConstructWithCallback(NumPaths)

\* file->state(s) is called
StateCall(t, o, s) ==
  /\ At(t, "idle")
  /\ files[o].alive
  /\ Call
  /\ Go(t, [Idle EXCEPT !.pc = "sg_load", !.op = "state", !.sobj = o, !.setval = s])
  /\ UNCHANGED << files, nobj, disk, lruVars, cfgVars, budget, task, completion, mk, sizeLog, cv, now,
                  prepareCalls >>

\* File::state(State): the load that guards the rest
StateGuard(t) ==
  /\ At(t, "sg_load")
  /\ \E s \in LoadState(th[t].sobj) :
       Go(t, [th[t] EXCEPT !.pc = IF s = FILE_IS_MARKED_FOR_DELETION
                                  THEN "idle" ELSE "sg_store"])
  /\ UNCHANGED << files, nobj, disk, lruVars, cfgVars, markVars, now, logVars >>

\* File::state(State): the time stamp and m_state.store
StateStore(t) ==
  /\ At(t, "sg_store")
  /\ files' = StoreTo(th[t].sobj, StateStored(files[th[t].sobj], th[t].setval))
  /\ Go(t, [th[t] EXCEPT !.pc = "sg_lock"])
  /\ UNCHANGED << nobj, disk, lruVars, cfgVars, markVars, now, logVars >>

\* File::state(State): scoped_lock lock(m_state_changed_mux)
StateLock(t) ==
  /\ At(t, "sg_lock")
  /\ cv.mux = 0
  /\ cv' = [cv EXCEPT !.mux = t]
  /\ Go(t, [th[t] EXCEPT !.pc = "sg_notify"])
  /\ UNCHANGED << files, nobj, disk, lruVars, cfgVars, budget, task, completion, mk, sizeLog, now, logVars >>

\* File::state(State): notify_all, and the lock goes out of scope
StateNotify(t) ==
  /\ At(t, "sg_notify")
  /\ cv' = [ mux |-> 0, asleep |-> NotifyAll(cv.asleep) ]
  /\ Go(t, [th[t] EXCEPT !.pc = "idle"])
  /\ UNCHANGED << files, nobj, disk, lruVars, cfgVars, budget, task, completion, mk, sizeLog, now, logVars >>

\* File::mark_for_deletion() is entered: scoped_lock lock(m_state_changed_mux)
MarkLock(o) ==
  /\ mk.pc = "none"
  /\ files[o].alive
  /\ cv.mux = 0
  /\ cv' = [cv EXCEPT !.mux = Marker]
  /\ mk' = [NoMark EXCEPT !.o = o, !.pc = "cas_idle"]
  /\ UNCHANGED << files, nobj, disk, lruVars, cfgVars, budget, task, completion, sizeLog, now, th, logVars >>

\* File::mark_for_deletion: notify_all after the compare-and-set that succeeded, or
\* after the last one that failed; the result; the lock goes out of scope
MarkNotify ==
  /\ mk.pc \in {"subscribers", "done"}
  /\ cv.mux = Marker
  /\ \E n \in IF files[mk.o].alive THEN {files[mk.o].m_subscribers} ELSE 0..NumThreads :
       mk' = [mk EXCEPT !.pc = "done", !.ret = MarkResult(mk.marked, n)]
  /\ cv' = [ mux |-> 0, asleep |-> NotifyAll(cv.asleep) ]
  /\ UNCHANGED << files, nobj, disk, lruVars, cfgVars, budget, task, completion, sizeLog, now, th, logVars >>

\* a caller subscribes to the file's state-change signal
SubscribeCall(t, o) ==
  /\ At(t, "idle")
  /\ files[o].alive
  /\ Call
  /\ Go(t, [Idle EXCEPT !.pc = "sub_check", !.op = "subscribe", !.file = o])
  /\ UNCHANGED << files, nobj, disk, lruVars, cfgVars, budget, task, completion, mk, sizeLog, cv, now,
                  prepareCalls >>

\* the caller gave up on a file marked for deletion
SubscribeRefused(t) ==
  /\ At(t, "find_lookup")
  /\ Go(t, [th[t] EXCEPT !.pc = "idle", !.result = "refused"])
  /\ UNCHANGED << files, nobj, disk, lruVars, cfgVars, markVars, now, logVars >>

\* the subscriber takes the file's mutex
WaitLock(t) ==
  /\ At(t, "wait_state")
  /\ cv.mux = 0
  /\ cv' = [cv EXCEPT !.mux = t]
  /\ Go(t, [th[t] EXCEPT !.pc = "sw_check"])
  /\ UNCHANGED << files, nobj, disk, lruVars, cfgVars, budget, task, completion, mk, sizeLog, now, logVars >>

\* holding the mutex, the subscriber checks the state: it leaves with a final state,
\* or waits on the condition, which releases the mutex
WaitCheck(t) ==
  /\ At(t, "sw_check")
  /\ \E s \in LoadState(th[t].file) :
       IF InProgress(s)
       THEN /\ cv' = [ mux |-> 0, asleep |-> cv.asleep \cup {t} ]
            /\ Go(t, [th[t] EXCEPT !.pc = "sw_asleep"])
       ELSE /\ cv' = [cv EXCEPT !.mux = 0]
            /\ Go(t, [th[t] EXCEPT !.pc = "unsub", !.result = s])
  /\ UNCHANGED << files, nobj, disk, lruVars, cfgVars, budget, task, completion, mk, sizeLog, now, logVars >>

\* a notified subscriber takes the mutex again and goes back to the check
WaitWake(t) ==
  /\ At(t, "sw_asleep")
  /\ t \notin cv.asleep
  /\ cv.mux = 0
  /\ cv' = [cv EXCEPT !.mux = t]
  /\ Go(t, [th[t] EXCEPT !.pc = "sw_check"])
  /\ UNCHANGED << files, nobj, disk, lruVars, cfgVars, budget, task, completion, mk, sizeLog, now, logVars >>

\* time passes before state(IN_USE_BY_SYNC) reads the clock
TickSignal ==
  /\ now < MaxTime
  /\ \E t \in Threads : At(t, "sg_store") /\ th[t].setval = FILE_IS_IN_USE_BY_SYNC
  /\ now' = now + 1
  /\ UNCHANGED << files, nobj, disk, lruVars, cfgVars, markVars, th, logVars >>

\* one file; callers set its state, one caller marks it for deletion, callers subscribe
InitSignal ==
  /\ Constructed(MaxSignalCalls)
  /\ autoload = FALSE
  /\ disk = [p \in Paths |-> Absent]
  /\ m_capacityLimit = Capacity

NextSignal ==
  \/ ConstructOne
  \/ \E t \in Threads, o \in Obj :
       \/ \E s \in {FILE_IS_IN_USE_BY_SYNC, FILE_IS_IDLE, FILE_IS_FORBIDDEN} :
            StateCall(t, o, s)
       \/ SubscribeCall(t, o)
  \/ \E t \in Threads :
       \/ StateGuard(t) \/ StateStore(t) \/ StateLock(t) \/ StateNotify(t)
       \/ SubscribeCheck(t) \/ SubscribeInc(t) \/ SubscribeRefused(t)
       \/ WaitLock(t) \/ WaitCheck(t) \/ WaitWake(t) \/ Unsubscribe(t)
  \/ \E o \in Obj : MarkLock(o)
  \/ MarkCas
  \/ MarkNotify
  \/ TickSignal

SpecSignal == InitSignal /\ [][NextSignal]_vars

\* ---------------------------------------------------------------- completion wait
\* a File is constructed, one for each caller at most
ConstructSome(p) == nobj < NumThreads /\ ConstructWithCallback(p)

\* continuationFor(file) is called, with a file or with nullptr
ContinuationCall(t, o) ==
  /\ At(t, "idle")
  /\ o # 0 => files[o].alive
  /\ Call
  /\ Go(t, [Idle EXCEPT !.pc = "cf_valid", !.op = "continuationFor", !.file = o,
                        !.path = IF o = 0 THEN 0 ELSE files[o].m_fqp])
  /\ completion' = [completion EXCEPT ![t] = NoWaiter]
  /\ UNCHANGED << files, nobj, disk, lruVars, cfgVars, budget, mk, sizeLog, cv, task, now,
                  prepareCalls >>

\* the completion callback is invoked: lock_guard lock(completion_mux), cbStatus, and
\* the load of state(FORBIDDEN) on failure; a download that completed has written the file
CompletionBegin(t) ==
  /\ th[t].req = "scheduled"
  /\ completion[t].mux = "free"
  /\ completion' = [completion EXCEPT ![t].mux = "callback"]
  /\ \E status \in taskOverallStatus, s \in LoadState(th[t].file) :
       LET stores == status # COMPLETED_OK /\ s # FILE_IS_MARKED_FOR_DELETION IN
       /\ Go(t, [th[t] EXCEPT !.status = status, !.cbStatus = CallbackStatus(status),
                              !.req = IF stores THEN "cm_store" ELSE "cm_notify"])
       /\ disk' = IF status = COMPLETED_OK
                  THEN [disk EXCEPT ![th[t].path] = MaxSize]
                  ELSE disk
  /\ UNCHANGED << files, nobj, lruVars, cfgVars, budget, mk, sizeLog, cv, task, now,
                  logVars >>

\* the completion callback: the store of state(FORBIDDEN)
CompletionStore(t) ==
  /\ th[t].req = "cm_store"
  /\ files' = StoreTo(th[t].file, StateStored(files[th[t].file], FILE_IS_FORBIDDEN))
  /\ Go(t, [th[t] EXCEPT !.req = "cm_notify"])
  /\ UNCHANGED << nobj, disk, lruVars, cfgVars, markVars, now, logVars >>

\* the completion callback: condition = true; condition_var.notify_all(); the lock_guard
\* goes out of scope
CompletionNotify(t) ==
  /\ th[t].req = "cm_notify"
  /\ Go(t, [th[t] EXCEPT !.req = "cb_done", !.condition = TRUE])
  /\ completion' = [completion EXCEPT ![t] = NoWaiter]
  /\ UNCHANGED << files, nobj, disk, lruVars, cfgVars, budget, mk, sizeLog, cv, task, now,
                  logVars >>

\* continuationFor: unique_lock lock(completion_mux)
CompletionWaitLock(t) ==
  /\ At(t, "cf_wait")
  /\ completion[t].mux = "free"
  /\ completion' = [completion EXCEPT ![t].mux = "caller"]
  /\ Go(t, [th[t] EXCEPT !.pc = "cw_check"])
  /\ UNCHANGED << files, nobj, disk, lruVars, cfgVars, budget, mk, sizeLog, cv, task, now,
                  logVars >>

\* a wait that takes the callback for fired
WaitPredicateAlways(condition) == TRUE

\* the predicate of condition_var.wait(lock, [&] {return condition;})
WaitPredicate(condition) == condition

\* continuationFor: the wait evaluates its predicate under the mutex: it ends, the lock is
\* released and the final state set, or the caller sleeps, which releases the mutex
CompletionWaitCheck(t) ==
  /\ At(t, "cw_check")
  /\ IF WaitPredicate(th[t].condition)
     THEN /\ Go(t, CallState(th[t], th[t].file, FinalState(th[t].cbStatus),
                             "cf_return"))
          /\ completion' = [completion EXCEPT ![t].mux = "free"]
     ELSE /\ Go(t, [th[t] EXCEPT !.pc = "cw_asleep"])
          /\ completion' = [completion EXCEPT ![t] = [ mux |-> "free", asleep |-> TRUE ]]
  /\ UNCHANGED << files, nobj, disk, lruVars, cfgVars, budget, mk, sizeLog, cv, task, now,
                  logVars >>

\* continuationFor: notified, the wait takes the mutex again
CompletionWake(t) ==
  /\ At(t, "cw_asleep")
  /\ ~completion[t].asleep
  /\ completion[t].mux = "free"
  /\ completion' = [completion EXCEPT ![t].mux = "caller"]
  /\ Go(t, [th[t] EXCEPT !.pc = "cw_check"])
  /\ UNCHANGED << files, nobj, disk, lruVars, cfgVars, budget, mk, sizeLog, cv, task, now,
                  logVars >>

\* continuationFor returns to the caller that called it directly
ContinuationDone(t) ==
  /\ At(t, "cf_return")
  /\ Go(t, [th[t] EXCEPT !.pc = "idle", !.result = "returned"])
  /\ UNCHANGED << files, nobj, disk, lruVars, cfgVars, markVars, now, logVars >>

\* callers construct files, decodable or not, and call continuationFor on them or on
\* nullptr; files are marked for deletion meanwhile; the prepare subsystem invokes the
\* callback of a request it accepted
InitCompletion ==
  /\ Constructed(MaxCompletionCalls)
  /\ autoload = TRUE
  /\ disk = [p \in Paths |-> Absent]
  /\ m_capacityLimit = Capacity

NextCompletion ==
  \/ \E p \in {0, NumPaths} : ConstructSome(p)
  \/ \E t \in Threads, o \in 0..MaxObj : ContinuationCall(t, o)
  \/ \E t \in Threads :
       \/ ContinuationValid(t) \/ SetLoad(t) \/ SetStore(t) \/ ContinuationPrepare(t)
       \/ CompletionBegin(t) \/ CompletionStore(t) \/ CompletionNotify(t)
       \/ CompletionWaitLock(t) \/ CompletionWaitCheck(t) \/ CompletionWake(t)
       \/ ContinuationDone(t)
  \/ \E o \in Obj : mark_for_deletion(o)

SpecCompletion == InitCompletion /\ [][NextCompletion]_vars

\* every thread that can take its next step takes it, the caller's and the one the
\* callback runs on; the callback of an accepted request is invoked
FairCompletion ==
  \A t \in Threads :
    /\ WF_vars(ContinuationValid(t)) /\ WF_vars(SetLoad(t)) /\ WF_vars(SetStore(t))
    /\ WF_vars(ContinuationPrepare(t))
    /\ WF_vars(CompletionBegin(t)) /\ WF_vars(CompletionStore(t))
    /\ WF_vars(CompletionNotify(t))
    /\ WF_vars(CompletionWaitLock(t)) /\ WF_vars(CompletionWaitCheck(t))
    /\ WF_vars(CompletionWake(t))
    /\ WF_vars(ContinuationDone(t))

SpecCompletionFair == SpecCompletion /\ FairCompletion

\* ---------------------------------------------------------------- sync module
\* what the rest of the cache does while the sync module works on its tasks
CacheUnchanged ==
  UNCHANGED << files, nobj, disk, lruVars, cfgVars, budget, mk, sizeLog, cv, completion,
               now, th, logVars >>

\* Sync::prepareFile is run for the task: without a namenode adaptor or a connection it
\* returns at once
PrepareFile(k, outcome) ==
  /\ task[k].prepare = "none"
  /\ task' = [task EXCEPT ![k].prepare = IF outcome = "OK" THEN "download" ELSE "done",
                          ![k].status = IF outcome = "OK" THEN "none" ELSE outcome]
  /\ CacheUnchanged

\* prepareFile: while(!task->condition() && bytes_read != 0)
Downloading(condition, bytes_read) == ~condition /\ bytes_read # 0

\* prepareFile: the download loop, one evaluation of its condition and one block
PrepareDownload(k) ==
  /\ task[k].prepare = "download"
  /\ IF Downloading(task[k].condition, task[k].bytes_read)
     THEN /\ task[k].mux = "free"
          /\ task' = [task EXCEPT ![k].bytes_read = 10]
     ELSE task' = [task EXCEPT ![k].prepare = "notify"]
  /\ CacheUnchanged

\* prepareFile: conditionvar->notify_all(); return OK
PrepareNotify(k) ==
  /\ task[k].prepare = "notify"
  /\ task' = [task EXCEPT ![k].prepare = "done", ![k].status = "OK",
                          ![k].asleep = FALSE]
  /\ CacheUnchanged

\* Sync::cancelFileMakeProgress(async, task) is called
Cancel(k, async) ==
  /\ task[k].cancel = "none"
  /\ task' = [task EXCEPT ![k].cancel = "lock", ![k].async = async]
  /\ CacheUnchanged

\* cancelFileMakeProgress: scoped_lock lock(*mux)
CancelLock(k) ==
  /\ task[k].cancel = "lock"
  /\ task[k].mux = "free"
  /\ task' = [task EXCEPT ![k].cancel = "flag", ![k].mux = "cancel"]
  /\ CacheUnchanged

\* cancelFileMakeProgress: if(!async) conditionvar->wait(*mux)
Waits(async) == ~async

\* cancelFileMakeProgress: *condition = true; then the wait, which releases the mutex,
\* or the return
CancelFlag(k) ==
  /\ task[k].cancel = "flag"
  /\ task' = [task EXCEPT ![k].condition = TRUE,
                          ![k].mux = "free",
                          ![k].asleep = Waits(task[k].async),
                          ![k].cancel = IF Waits(task[k].async) THEN "wait" ELSE "done"]
  /\ CacheUnchanged

\* cancelFileMakeProgress: notified, the wait takes the mutex again and the call returns
CancelWake(k) ==
  /\ task[k].cancel = "wait"
  /\ ~task[k].asleep
  /\ task[k].mux = "free"
  /\ task' = [task EXCEPT ![k].cancel = "done"]
  /\ CacheUnchanged

InitCancel ==
  /\ Constructed(MaxCalls)
  /\ autoload = FALSE
  /\ disk = [p \in Paths |-> Absent]
  /\ m_capacityLimit = Capacity

NextCancel ==
  \E k \in Tasks :
    \/ \E outcome \in {"OK", "NAMENODE_IS_NOT_CONFIGURED", "DFS_NAMENODE_IS_NOT_REACHABLE"} :
         PrepareFile(k, outcome)
    \/ PrepareDownload(k)
    \/ PrepareNotify(k)
    \/ \E async \in BOOLEAN : Cancel(k, async)
    \/ CancelLock(k)
    \/ CancelFlag(k)
    \/ CancelWake(k)

SpecCancel == InitCancel /\ [][NextCancel]_vars

\* every thread of the sync module that can take its next step takes it; a task that
\* was submitted is run
FairCancel ==
  \A k \in Tasks :
    /\ WF_vars(\E outcome \in {"OK", "NAMENODE_IS_NOT_CONFIGURED",
                                "DFS_NAMENODE_IS_NOT_REACHABLE"} : PrepareFile(k, outcome))
    /\ WF_vars(PrepareDownload(k))
    /\ WF_vars(PrepareNotify(k))
    /\ WF_vars(CancelLock(k))
    /\ WF_vars(CancelFlag(k))
    /\ WF_vars(CancelWake(k))

SpecCancelFair == SpecCancel /\ FairCancel

\* ---------------------------------------------------------------- estimated sizes
\* a cache with room for every file, with or without autoload; one path is added or
\* looked up, clients construct files with a callback, and estimated sizes are set
InitWeight ==
  /\ Constructed(MaxEstimateCalls)
  /\ autoload \in BOOLEAN
  /\ disk = [p \in Paths |-> IF p = NumPaths THEN MaxSize ELSE Absent]
  /\ m_capacityLimit = Capacity + MaxSize

NextWeight ==
  \/ \E t \in Threads :
       \/ SetLoad(t) \/ SetStore(t)
       \/ AdmitBegin(t) \/ AdmitEvict(t)
       \/ ConstructNew(t) \/ FindAdmitted(t) \/ FindHit(t)
       \/ SubscribeCheck(t) \/ SubscribeInc(t) \/ WaitState(t) \/ Unsubscribe(t)
       \/ ContinuationValid(t) \/ ContinuationPrepare(t) \/ ContinuationWait(t)
       \/ ContinuationReturn(t)
       \/ CallbackBegin(t) \/ CallbackStore(t)
       \/ AddReturn(t)
  \/ \E t \in Threads : Find(t, NumPaths) \/ Add(t, NumPaths)
  \/ ConstructWithCallback(NumPaths)
  \/ \E o \in Obj, n \in 0..MaxSize : estimated_size(o, n)

SpecWeight == InitWeight /\ [][NextWeight]_vars

\* ---------------------------------------------------------------- properties
\* the thread is inside continuationFor's call file->state(s) that returns to pc r
InStateCall(t, r) == th[t].pc \in {"set_load", "set_store"} /\ th[t].ret = r

\* C1: a file is never marked for deletion, dropped from disk or destroyed while a
\* reader uses it (users > 0), in any interleaving of deleteFile with open/close
C1_NoDeletionWhileInUse ==
  \A o \in Obj :
    files[o].m_users > 0 =>
      /\ files[o].alive
      /\ files[o].m_state # FILE_IS_MARKED_FOR_DELETION
      /\ disk[files[o].m_fqp] # Absent

\* C2: once a file's state is MARKED_FOR_DELETION no step changes it to another state
C2_MarkedIsTerminal ==
  [][\A o \in Obj :
       (files[o].alive /\ files[o].m_state = FILE_IS_MARKED_FOR_DELETION)
         => files'[o].m_state = FILE_IS_MARKED_FOR_DELETION]_vars

\* C3: in every reachable state a file with users > 0 is in state HAS_CLIENTS
C3_UsersImplyHasClients ==
  \A o \in Obj : files[o].m_users > 0 => files[o].m_state = FILE_HAS_CLIENTS

\* the edges of the state machine
PermittedEdges ==
  { << FILE_IS_AMORPHOUS, FILE_IS_IN_USE_BY_SYNC >>,
    << FILE_IS_AMORPHOUS, FILE_IS_FORBIDDEN >>,
    << FILE_IS_AMORPHOUS, FILE_IS_MARKED_FOR_DELETION >>,
    << FILE_IS_IN_USE_BY_SYNC, FILE_IS_IDLE >>,
    << FILE_IS_IN_USE_BY_SYNC, FILE_IS_FORBIDDEN >>,
    << FILE_IS_IDLE, FILE_HAS_CLIENTS >>,
    << FILE_IS_IDLE, FILE_IS_MARKED_FOR_DELETION >>,
    << FILE_HAS_CLIENTS, FILE_IS_IDLE >>,
    << FILE_IS_FORBIDDEN, FILE_IS_IN_USE_BY_SYNC >>,
    << FILE_IS_FORBIDDEN, FILE_IS_MARKED_FOR_DELETION >> }

\* C4: every change of the state of an existing file, by any step, is one of the
\* permitted edges of the state machine
C4_OnlyPermittedEdges ==
  [][\A o \in Obj :
       (files[o].alive /\ files'[o].alive /\ files'[o].m_state # files[o].m_state)
         => << files[o].m_state, files'[o].m_state >> \in PermittedEdges]_vars

\* a lookup that has handed its caller the file in the state the callback left
Finished(t) ==
  /\ th[t].pc \in {"idle", "unsub"}
  /\ th[t].file # 0
  /\ th[t].result \in State \ {FILE_IS_IN_USE_BY_SYNC}

\* C5: lookups of one path on a cold cache dispatch at most one prepare request, exactly
\* one once a caller has its result, and all callers of one file see the same terminal
\* state, IDLE or FORBIDDEN
C5_SingleFlight ==
  /\ \A p \in Paths : prepareCalls[p] <= 1
  /\ \A t \in Threads :
       Finished(t) =>
         /\ prepareCalls[files[th[t].file].m_fqp] = 1
         /\ th[t].result \in {FILE_IS_IDLE, FILE_IS_FORBIDDEN}
         /\ \A u \in Threads :
              (Finished(u) /\ th[u].file = th[t].file) => th[u].result = th[t].result

\* one caller fetched the file, the other subscribed and waited, both saw FORBIDDEN
C5_Witness ==
  /\ th[1].pc = "idle" /\ th[1].file # 0 /\ th[1].result = FILE_IS_FORBIDDEN
  /\ th[2].pc = "unsub" /\ th[2].file = th[1].file
  /\ th[2].result = FILE_IS_FORBIDDEN

\* the states that keep a file from being a victim
NonIdle(o) ==
  files[o].m_state \in {FILE_HAS_CLIENTS, FILE_IS_IN_USE_BY_SYNC, FILE_IS_UNDER_WRITE}

\* the states whose entries make up the cache's disk weight
Accounted(o) ==
  files[o].m_state \in {FILE_IS_IDLE, FILE_HAS_CLIENTS, FILE_IS_IN_USE_BY_SYNC}

\* C6: with no admission running, the weight of the files the store holds on disk is
\* at most the capacity plus the weight of the non-idle files in the store
C6_WeightWithinCapacity ==
  lock = 0 =>
    WeightOf(SelectSeq(m_store, Accounted))
      <= Capacity + WeightOf(SelectSeq(m_store, NonIdle))

\* C7: the store never holds two files of one local path
C7_OneFilePerPath ==
  \A i, j \in 1..Len(m_store) :
    i # j => files[m_store[i]].m_fqp # files[m_store[j]].m_fqp

\* an admission found the path in the store while the store held an entry for it
C7_Witness ==
  \E t \in Threads :
    /\ th[t].pc \in {"add_ret", "find_admitted"}
    /\ th[t].duplicate
    /\ \E i \in 1..Len(m_store) :
         /\ m_store[i] # th[t].cand
         /\ files[m_store[i]].m_fqp = files[th[t].cand].m_fqp

\* C8: the file add(P) hands back when P is already in the store is the file the
\* store holds for P
C8_AddReturnsExisting ==
  \A t \in Threads :
    (th[t].pc = "idle" /\ th[t].result = "duplicate") =>
      /\ files[th[t].file].alive
      /\ InStore(th[t].file)

C10_UnscheduledIsForbidden ==
  \A t \in Threads :
    ( /\ th[t].pc = "cf_return"
      /\ th[t].scheduling \notin {"-", OPERATION_ASYNC_SCHEDULED}
      /\ files[th[t].file].alive )
    => files[th[t].file].m_state = FILE_IS_FORBIDDEN

\* C11: a fetch whose completion callback reported cancelled = true or overall_ok = false
\* ends with the file in FORBIDDEN, whatever the task status argument was: the state
\* the woken continuation sets is FORBIDDEN
C11_CancelledIsForbidden ==
  [][ \A t \in Threads :
        ( /\ At(t, "cf_wait")
          /\ th[t].condition
          /\ th[t].canceled \/ ~th[t].overall
          /\ th'[t].pc = "set_load" )
        => th'[t].setval = FILE_IS_FORBIDDEN ]_vars

\* the step of the followed mark_for_deletion call that has just been taken
MarkStepped == mk' # mk /\ mk.pc # "none" /\ files[mk.o].alive

C14_NoSubscriberOnMarked ==
  ( mk.pc = "done" /\ mk.ret /\ files[mk.o].alive ) => files[mk.o].m_subscribers = 0

\* thread t's deleteFile takes the file off the disk or destroys the File object
Disposes(t) ==
  /\ th'[t] # th[t]
  /\ \/ At(t, "df_drop") /\ th[t].physically
     \/ At(t, "df_delete")
  /\ files[th[t].victim].alive

\* C15: deleteFile never drops a file from disk nor destroys its File object while the
\* file has subscribers
C15_NoDisposalWithSubscribers ==
  [][ \A t \in Threads :
        Disposes(t) => files[th[t].victim].m_subscribers = 0 ]_vars

\* C16: deleteFile goes on to mark, drop and destroy only a file whose state is IDLE,
\* FORBIDDEN or AMORPHOUS; for a file in IN_USE_BY_SYNC or UNDER_WRITE it returns false
\* as it does for HAS_CLIENTS
C16_EvictsOnlyMarkable ==
  [][ \A t \in Threads :
        ( /\ At(t, "df_check")
          /\ th'[t].pc = "set_load"
          /\ files[th[t].victim].alive )
        => Markable(files[th[t].victim].m_state) ]_vars

\* thread t's lookup has landed on its file in FORBIDDEN, stamped by an earlier fetch
OnForbidden(t) ==
  /\ At(t, "find_hit")
  /\ th'[t] # th[t]
  /\ files[th[t].file].alive
  /\ files[th[t].file].m_state = FILE_IS_FORBIDDEN
  /\ ~Stamping(th[t].file)

\* C12: retry gating: a lookup at time t on a file that entered FORBIDDEN after a fetch
\* stamped last_sync_attempt = t0 goes on to fetch again if and only if
\* t - t0 > retry_interval, and returns failure otherwise; a lookup that goes on moves the
\* state back to IN_USE_BY_SYNC and dispatches a prepare request; so however many
\* lookups are made, one more request is dispatched only once per elapsed interval
C12_RetryGating ==
  [][ /\ \A t \in Threads :
           OnForbidden(t) =>
             LET due == now - files[th[t].file].m_lastsyncattempt > RetryInterval IN
             /\ th'[t].pc = "resync_cas" <=> due
             /\ ~due => th'[t].pc = "idle" /\ th'[t].result = FILE_IS_FORBIDDEN
      /\ \A t \in Threads :
           th[t].resync /\ th'[t].pc = "idle" => th[t].scheduling # "-"
      /\ \A t \in Threads :
           At(t, "cf_prepare") /\ th'[t] # th[t] =>
             files[th[t].file].m_state = FILE_IS_IN_USE_BY_SYNC
      /\ prepareCalls'[NumPaths] <= 1 + (now' \div (RetryInterval + 1)) ]_vars

\* a lookup after the interval has dispatched the second prepare request for the path
C12_Witness ==
  /\ prepareCalls[NumPaths] = 2
  /\ \E t \in Threads : th[t].resync /\ th[t].req = "scheduled"
  /\ now > RetryInterval

\* thread t's admission inserts its candidate in this step
Inserts(t) == At(t, "adm_evict") /\ Len(m_store') > Len(m_store)

\* C17: admission never fails for lack of space: the candidate is inserted and the
\* caller gets success also when it does not fit and no idle victim remains, and the
\* weight then exceeds the capacity by no more than the weight of the non-idle files
\* the admission had to pass over
C17_AdmissionNeverFails ==
  [][ \A t \in Threads :
        Inserts(t) =>
          /\ th'[t].success
          /\ m_store'[Len(m_store')] = th[t].cand
          /\ m_currentWeight' <= Capacity + th[t].skipped ]_vars

\* thread t's admission takes its victim out of the store in this step
Evicts(t) == At(t, "adm_evicted") /\ Len(m_store') < Len(m_store)

\* C18: an admission that needs space takes its victims from the least recently used
\* end of the store, passes over the non-idle ones and stops as soon as the candidate
\* fits: the entry evicted is the oldest one not passed over, and no entry is evicted
\* once current_weight + w <= capacity
C18_EvictionOrder ==
  [][ \A t \in Threads :
        Evicts(t) =>
          /\ th[t].victim = m_store[th[t].vi]
          /\ \A j \in 1..Len(m_store') : j < th[t].vi => m_store'[j] = m_store[j]
          /\ m_currentWeight + th[t].w > Capacity ]_vars

\* the store holds an entry for the path
HasEntry(p) == \E i \in 1..Len(m_store) : files[m_store[i]].m_fqp = p

\* the store holds an IDLE entry for the path
HasIdleEntry(p) ==
  \E i \in 1..Len(m_store) :
    /\ files[m_store[i]].m_fqp = p
    /\ files[m_store[i]].m_state = FILE_IS_IDLE

\* C19: when reload(root) returns true, every file under the root whose path decodes
\* has an entry in the store in state IDLE, whatever the total size of the files is,
\* and no file whose path fails to decode has an entry
C19_ReloadIsComplete ==
  [][ \A t \in Threads :
        ( At(t, "rl_next") /\ th'[t].pc = "idle" /\ th'[t].result = "true" )
        => \A p \in Paths :
             /\ Decodable(p) /\ disk[p] # Absent => HasIdleEntry(p)
             /\ ~Decodable(p) => ~HasEntry(p) ]_vars

\* C20: reload(root) with an empty root string returns false and changes nothing: no
\* reload goes on with an empty root, and the call that returns false leaves the
\* configured root, the store's entries, every file and the current weight as they were
C20_EmptyRootFails ==
  [][ \A t \in Threads :
        /\ th'[t].pc = "rl_next" => th'[t].root
        /\ ( At(t, "idle") /\ calls' # calls /\ th'[t].pc = "idle"
               /\ th'[t].result = "false"
               /\ \A u \in Threads \ {t} : th'[u] = th[u] )
           => UNCHANGED << m_root, m_store, files, m_currentWeight, nodeWeight, disk >> ]_vars

\* reload("") has returned false on a cache that holds entries
C20_Witness ==
  /\ m_store # << >>
  /\ \E t \in Threads : At(t, "idle") /\ th[t].result = "false"

\* C21: a file whose local path the path codec rejects is never admitted into the
\* store, neither by constructNew on a lookup miss nor by add(path)
C21_InvalidPathNeverAdmitted ==
  \A i \in 1..Len(m_store) : Decodable(files[m_store[i]].m_fqp)

\* thread t calls find() in this step and misses
Misses(t) ==
  /\ At(t, "idle")
  /\ calls' # calls
  /\ th'[t] # th[t]
  /\ th'[t].result = "nullptr"
  /\ th'[t].pc \in {"idle", "cn_new"}
  /\ \A u \in Threads \ {t} : th'[u] = th[u]

\* C22: without autoload a find() of a path not in the store returns not-found, creates
\* no file, dispatches no prepare request and leaves the store and the weight unchanged;
\* with autoload the same miss goes on to construct a file
C22_AutoloadGovernsMisses ==
  [][ /\ \A t \in Threads :
           Misses(t) =>
             /\ th'[t].pc = "cn_new" <=> autoload
             /\ ~autoload =>
                   UNCHANGED << files, nobj, m_store, m_currentWeight, nodeWeight,
                                prepareCalls, disk >>
      /\ ~autoload => prepareCalls' = prepareCalls /\ nobj' >= nobj
      /\ \A t \in Threads : th'[t].pc = "cn_new" => autoload ]_vars

\* a find() has missed on a cache without autoload that holds entries
C22_Witness ==
  /\ ~autoload
  /\ m_store # << >>
  /\ \E t \in Threads : At(t, "idle") /\ th[t].result = "nullptr"

\* the estimated size of an entry of the store changes in this step
Reestimated(o) ==
  /\ InStore(o)
  /\ files[o].alive /\ files'[o].alive
  /\ files'[o].m_estimatedsize # files[o].m_estimatedsize

\* C23: whenever the estimated size of a file in the store changes, the cache's current
\* weight changes by the same delta, for files admitted by add(path) and by autoload
C23_WeightFollowsEstimatedSize ==
  [][ \A o \in Obj :
        Reestimated(o) =>
          m_currentWeight' - m_currentWeight
            = files'[o].m_estimatedsize - files[o].m_estimatedsize ]_vars

RECURSIVE SumSeq(_)
SumSeq(q) == IF q = << >> THEN 0 ELSE Head(q) + SumSeq(Tail(q))

\* C24: on a file constructed with a weight-change callback every estimated_size(n)
\* delivers exactly one delta, n minus the previous size (negative and zero included),
\* and leaves previous size = estimated size = n; the deltas delivered sum up to the
\* current estimated size
C24_DeltasSumToEstimatedSize ==
  \A o \in Obj :
    files[o].alive /\ files[o].m_weightIsChangedcallback =>
      LET a == sizeLog[o].args
          d == sizeLog[o].deltas
      IN  /\ Len(d) = Len(a)
          /\ \A i \in 1..Len(a) : d[i] = a[i] - (IF i = 1 THEN 0 ELSE a[i - 1])
          /\ files[o].m_prevsize = files[o].m_estimatedsize
          /\ files[o].m_estimatedsize = IF a = << >> THEN 0 ELSE a[Len(a)]
          /\ SumSeq(d) = files[o].m_estimatedsize

\* a file with a callback was given a size, the same size again, and a smaller one
C24_Witness ==
  \E o \in Obj :
    /\ files[o].alive /\ files[o].m_weightIsChangedcallback
    /\ Len(sizeLog[o].deltas) = MaxEstimateCalls
    /\ \E i, j \in 1..MaxEstimateCalls :
         sizeLog[o].deltas[i] < 0 /\ sizeLog[o].deltas[j] = 0

\* thread t takes the step of deleteFile that leaves pc l
Leaves(t, l) == At(t, l) /\ th'[t].pc # l

\* thread t takes a step of deleteFile's call file->state(MARKED_FOR_DELETION)
Marking(t) ==
  /\ th[t].pc \in {"set_load", "set_store"}
  /\ th[t].ret = "df_drop"
  /\ th'[t] # th[t]

BroadcastPending(o) ==
  \/ \E u \in Threads : th[u].pc \in {"sg_lock", "sg_notify"} /\ th[u].sobj = o
  \/ cv.mux = Marker /\ mk.o = o

\* the subscriber is asleep on a file whose state no longer asks it to wait
Overslept(t) ==
  /\ t \in cv.asleep
  /\ files[th[t].file].alive
  /\ ~InProgress(files[th[t].file].m_state)

\* the state of the file changes in this step
StateChanges(o) ==
  /\ files[o].alive /\ files'[o].alive
  /\ files'[o].m_state # files[o].m_state

\* C26: every state change made by state(s) or by a compare-and-set of mark_for_deletion
\* is followed by a broadcast that comes after the store, so a subscriber that checks
\* the state under the mutex before it waits never sleeps through a change; and
\* last_sync_attempt is stamped exactly by a state(IN_USE_BY_SYNC) call that found the
\* file not marked for deletion
C26_BroadcastAfterStore ==
  /\ [](\A t \in Threads : Overslept(t) => BroadcastPending(th[t].file))
  /\ [][ /\ \A o \in Obj :
             /\ StateChanges(o) => BroadcastPending(o)'
             /\ files'[o].m_lastsyncattempt # files[o].m_lastsyncattempt =>
                   \E t \in Threads :
                     /\ Leaves(t, "sg_store")
                     /\ th[t].sobj = o
                     /\ th[t].setval = FILE_IS_IN_USE_BY_SYNC
         /\ \A t \in Threads :
             LET o == th[t].sobj
             IN  /\ Leaves(t, "sg_load") =>
                      /\ UNCHANGED << files, cv >>
                      /\ th'[t].pc = "idle" =>
                            files[o].m_state = FILE_IS_MARKED_FOR_DELETION
                      /\ th'[t].pc # "idle" =>
                            /\ th'[t].pc = "sg_store"
                            /\ files[o].m_state # FILE_IS_MARKED_FOR_DELETION
                 /\ Leaves(t, "sg_store") =>
                      /\ files'[o].m_state = th[t].setval
                      /\ files'[o].m_lastsyncattempt
                           = IF th[t].setval = FILE_IS_IN_USE_BY_SYNC
                             THEN now ELSE files[o].m_lastsyncattempt
                      /\ th'[t].pc = "sg_lock"
                 /\ Leaves(t, "sg_notify") => UNCHANGED files ]_vars

\* a subscriber that went to sleep on a fetch in progress has been woken by the
\* broadcast of the change that ended it
C26_Witness ==
  \E t \in Threads :
    /\ At(t, "sw_asleep")
    /\ t \notin cv.asleep
    /\ files[th[t].file].m_lastsyncattempt # not_a_date_time
    /\ ~InProgress(files[th[t].file].m_state)
    /\ ~BroadcastPending(th[t].file)

\* C27: cancelFileMakeProgress always sets the cancel flag; with async it returns without
\* waiting; without async it returns eventually in every interleaving with prepareFile,
\* also when prepareFile has sent its exit notification before the cancel call waits
C27_CancelReturns ==
  /\ [](\A k \in Tasks : task[k].cancel \in {"wait", "done"} => task[k].condition)
  /\ [](\A k \in Tasks : task[k].async => task[k].cancel # "wait")
  /\ \A k \in Tasks : (task[k].cancel = "lock") ~> (task[k].cancel = "done")

\* the thread is in a continuationFor call whose prepare request was accepted and
\* whose wait is over
PastTheWait(t) ==
  /\ th[t].scheduling = OPERATION_ASYNC_SCHEDULED
  /\ th[t].pc \in {"set_load", "set_store", "cf_return"}

\* C28: when the prepare request was accepted and its callback is invoked once,
\* continuationFor returns eventually, whether the callback runs before or after the
\* caller starts to wait, and it does not return before the callback has run
C28_CompletionWait ==
  /\ [](\A t \in Threads : PastTheWait(t) => th[t].condition /\ th[t].req = "cb_done")
  /\ \A t \in Threads : At(t, "cf_wait") ~> At(t, "idle")

\* one caller slept and was woken by the callback, the other finds the callback done
\* before it starts to wait
C28_Witness ==
  \E t, u \in Threads :
    /\ At(t, "cw_asleep") /\ ~completion[t].asleep /\ th[t].condition
    /\ At(u, "cf_wait") /\ th[u].condition /\ th[u].req = "cb_done"

\* thread t leaves continuationFor's guard with a null file or one that is not valid
Refused(t) ==
  /\ Leaves(t, "cf_valid")
  /\ \/ th[t].file = 0
     \/ /\ files[th[t].file].alive
        /\ files[th[t].file].m_state
             \in {FILE_IS_FORBIDDEN, FILE_IS_MARKED_FOR_DELETION}

\* C29: continuationFor on a null file or on a file in FORBIDDEN or MARKED_FOR_DELETION
\* dispatches no prepare request and leaves the state and last_sync_attempt as they
\* are; a FORBIDDEN file is fetched again only after it was moved out of FORBIDDEN
C29_InvalidFileIsLeftAlone ==
  [][ \A t \in Threads :
        /\ Refused(t) =>
             /\ th'[t].pc = "cf_return"
             /\ th'[t].scheduling = Idle.scheduling
             /\ UNCHANGED << files, prepareCalls, disk >>
        /\ Leaves(t, "cf_return") /\ th[t].scheduling = Idle.scheduling =>
             /\ th'[t].pc = "idle"
             /\ UNCHANGED << files, prepareCalls, disk >>
        /\ Leaves(t, "cf_valid") /\ th'[t].pc # "cf_return" =>
             /\ th[t].file # 0
             /\ files[th[t].file].alive => valid(files[th[t].file].m_state)
        /\ prepareCalls' # prepareCalls =>
             \E u \in Threads :
               Leaves(u, "cf_prepare") /\ th[u].ret = "cf_prepare" ]_vars

\* continuationFor was called on a file in FORBIDDEN that was fetched before and has
\* returned with nothing dispatched
C29_Witness ==
  \E t \in Threads :
    /\ At(t, "cf_return")
    /\ th[t].scheduling = Idle.scheduling
    /\ th[t].file # 0
    /\ files[th[t].file].alive
    /\ files[th[t].file].m_state = FILE_IS_FORBIDDEN
    /\ files[th[t].file].m_lastsyncattempt # not_a_date_time

====
